---- MODULE Spec2Model ----
(***************************************************************************)
(* Turn engine of the board game: the seeded RNG (core/rng.ts), tile       *)
(* generation and GameState construction (core/game-state.ts), and the     *)
(* TurnMachine commands (core/turn-machine.ts).  One action per public     *)
(* TurnMachine method; a command that throws leaves the game state as the  *)
(* code leaves it and is recorded in the observation variables.            *)
(***************************************************************************)
EXTENDS Integers, Sequences, FiniteSets, TLC

(* ------------------------------ constants ------------------------------ *)
TILE_COUNT == 50
MAX_TURNS == 12
DICE_MIN == 1
DICE_MAX == 6
GREEN_TILE_COUNT == 20
RED_TILE_COUNT == 15
YELLOW_TILE_COUNT == 10
BLUE_TILE_COUNT == 5
TILE_REWARDS_GREEN == 3
TILE_REWARDS_RED == 0 - 3
YELLOW_OPTIONS == <<5, 2, 0 - 2, 0 - 5>>
RNG_A == 9301
RNG_C == 49297
RNG_M == 233280
\* the literal 50 of movePawn (not TILE_COUNT in the code)
MOVE_MODULUS == 50

\* `null` of the nullable number fields (diceResult, pendingPoints, minigameScore)
Null == 0 - 1000

TurnState == {"TURN_START", "ROLL_DICE", "MOVE", "RESOLVE_TILE",
              "OPTIONAL_MINIGAME", "END_TURN", "GAME_END"}

(* ------------------------------- bounds -------------------------------- *)
\* rosters of 1..MaxPlayers players
MaxPlayers == 2
\* irregular calls explored per game: a startTurn that changes the phase, a
\* transitionToResolveTile, a movePawn whose callback throws, a forced state
MaxIrregular == 1
\* the irregular calls are issued while fewer than ExploreTurns turns have ended
ExploreTurns == 1
\* testBlueTile events explored per game
MaxTestEvents == 1
\* seeds the game state is constructed with
Seeds == {42, 217}
\* seeds the generator is constructed with when shuffle is called on its own:
\* the smallest, two whose tile shuffle meets the rounding case of
\* FloatFloorMul, seeds at and above the modulus, and negative seeds
ShuffleSeeds ==
    {0, 1, 42, 217, 102270, 169662, 233279, 233280, 233322, 1000003,
     0 - 1, 0 - 6, 0 - 42}
\* seeds a generator used on its own is constructed with: zero, small and
\* large seeds of both signs, the modulus, and seeds whose first draw meets a
\* rounding case of FloatFloorMul
RngSeeds ==
    {0, 1, 42, 79667, 167795, 233279, 233280, 1000003,
     0 - 1, 0 - 5, 0 - 6, 0 - 42, 0 - 49933, 0 - 233280, 0 - 1000003}
\* calls explored on one generator
MaxDraws == 3
\* phases kept in the trail: the seven of the documented order
TrailLen == 7
\* start() calls explored on one MinigameUI, show() calls on one overlay
MaxSessions == 2
\* seconds left on the countdown of a trivia question when it is first observed
MaxTicks == 2
\* arrays passed to shuffle have at most MaxLen elements (besides the tile types)
MaxLen == 3
Letters == {"a", "b", "c"}

(* -------------------------------- RNG ---------------------------------- *)
\* (x * 9301) % 233280 for 0 <= x < 233280, split so that no intermediate
\* product leaves the 32-bit integers of TLC (9301 = 93 * 100 + 1)
MulAMod(x) == ((((x * 93) % RNG_M) * 100) + x) % RNG_M

\* faulty variant of JsRem: the modulus is subtracted only above it, so that
\* the value m itself is kept
JsRemInclusive(a, m) == IF a > m THEN a - m ELSE a

\* a % m of JavaScript: the remainder takes the sign of the dividend
JsRem(a, m) == IF a >= 0 THEN a % m ELSE 0 - ((0 - a) % m)

\* the value a missing array element or property reads as
Undefined == "undefined"

\* RNG.random: this.seed = (this.seed * 9301 + 49297) % 233280 for an integer
\* seed below 2^53 / 9301 in size, where the double arithmetic is exact.  The
\* sum is negative exactly when seed * 9301 < -49297, and % keeps its sign:
\* with -seed * 9301 = q * 233280 + r the result is then -((r - 49297) mod 233280)
RngNext(s) ==
    IF s >= 0 THEN (MulAMod(s % RNG_M) + RNG_C) % RNG_M
    ELSE IF 0 - s <= RNG_C \div RNG_A THEN JsRem(s * RNG_A + RNG_C, RNG_M)
    ELSE 0 - ((MulAMod((0 - s) % RNG_M) - RNG_C) % RNG_M)

\* Math.floor((seed / 233280) * n) in IEEE double arithmetic, |seed| < 233280,
\* 1 <= n <= 50: equal to the exact floor(seed * n / 233280) except where the
\* rounded quotient times n falls just below an integer (n = 45 only)
FloatFloorMul(s, n) ==
    IF n = 45 /\ s \in {67392, 134784, 0 - 150336}
    THEN ((s * n) \div RNG_M) - 1
    ELSE (s * n) \div RNG_M

\* faulty variant of AfterRandomInt: randomInt draws twice
AfterRandomIntTwice(s) == RngNext(RngNext(s))

\* the seed a randomInt (or pick) call leaves in a generator holding seed s:
\* one random() call
AfterRandomInt(s) == RngNext(s)

\* faulty variant of RandomIntOf: the offset min is not added
RandomIntOfNoMin(s1, min, max) == FloatFloorMul(s1, max - min + 1)

\* RNG.randomInt(min, max) computed from the seed left by its random() call
RandomIntOf(s1, min, max) == FloatFloorMul(s1, max - min + 1) + min

\* RNG.pick(array) computed from the seed left by its random() call
PickOf(s1, array) ==
    LET k == RandomIntOf(s1, 0, Len(array) - 1) + 1
    IN  IF k \in 1..Len(array) THEN array[k] ELSE Undefined

\* arr[k] of JavaScript, arr holding element i under key i + 1 and a property
\* "-i" under key 1 - i
Get(arr, k) == IF k \in DOMAIN arr THEN arr[k] ELSE Undefined

\* [arr[a], arr[b]] = [arr[b], arr[a]]: both reads come first; a write under a
\* negative index creates a property and leaves the length alone
Swap(arr, a, b) ==
    IF a \in DOMAIN arr /\ b \in DOMAIN arr
    THEN [arr EXCEPT ![a] = arr[b], ![b] = arr[a]]
    ELSE [k \in DOMAIN arr \cup {a, b} |->
            IF k = a THEN Get(arr, b) ELSE IF k = b THEN Get(arr, a) ELSE arr[k]]

\* faulty variant of WriteSwap: the swap is written to the caller's array
WriteSwapInput(heap, a, b) == [heap EXCEPT !.input = Swap(heap.input, a, b)]

\* [result[i], result[j]] = [result[j], result[i]]: the swap is written to the
\* copy; heap.input is the caller's array, heap.result the array [...array]
WriteSwap(heap, a, b) == [heap EXCEPT !.result = Swap(heap.result, a, b)]

\* the loop of RNG.shuffle from 0-based index i0 down to 1; yields the two
\* arrays and the seed after the last draw
RECURSIVE ShuffleLoop(_, _, _)
ShuffleLoop(heap, s, i0) ==
    IF i0 < 1 THEN [heap |-> heap, seed |-> s]
    ELSE LET s1 == RngNext(s)
             j0 == FloatFloorMul(s1, i0 + 1)
         IN  ShuffleLoop(WriteSwap(heap, i0 + 1, j0 + 1), s1, i0 - 1)

\* RNG.shuffle(arr) on a generator holding seed s: the returned array, the
\* caller's array as the call leaves it, and the seed left
Shuffle(arr, s) ==
    LET out == ShuffleLoop([input |-> arr, result |-> arr], s, Len(arr) - 1)
    IN  [result |-> [k \in 1..Len(arr) |-> out.heap.result[k]],
         array |-> out.heap.input, seed |-> out.seed]

(* --------------------------- game-state.ts ----------------------------- *)
Repeat(x, n) == [i \in 1..n |-> x]

TileTypes ==
    Repeat("green", GREEN_TILE_COUNT) \o Repeat("red", RED_TILE_COUNT)
      \o Repeat("yellow", YELLOW_TILE_COUNT) \o Repeat("blue", BLUE_TILE_COUNT)

\* faulty variant of TileAt: the tiles are numbered from 1
TileAtFromOne(shuffled, i) == [type |-> shuffled[i + 1], index |-> i + 1]

\* the tile object pushed at loop index i: { type: shuffled[i], index: i }
TileAt(shuffled, i) == [type |-> shuffled[i + 1], index |-> i]

\* generateTiles: tiles[i + 1] is the tile pushed at loop index i
GenerateTiles(s) ==
    LET sh == Shuffle(TileTypes, s)
    IN  [tiles |-> [k \in 1..TILE_COUNT |-> TileAt(sh.result, k - 1)], seed |-> sh.seed]

\* faulty variant of GetYellowTilePoints: the drawn index is returned, not the element
GetYellowTilePointsIndex(s1) == RandomIntOf(s1, 0, Len(YELLOW_OPTIONS) - 1)

GetYellowTilePoints(s1) == PickOf(s1, YELLOW_OPTIONS)

\* faulty variant of GetMinigamePoints: the minigame score (1 or 0) is taken for the points
GetMinigamePointsScore(correct) == IF correct THEN 1 ELSE 0

GetMinigamePoints(correct) == IF correct THEN 10 ELSE 0

\* a roster as the selection screen builds it: pawnPosition 0, points 0
NewPlayers(n) == [i \in 1..n |-> [pawnPosition |-> 0, points |-> 0]]

(* ------------------------------- state --------------------------------- *)
VARIABLES
    players,            \* gameState.players: <<[pawnPosition, points], ...>>
    currentPlayerIndex, \* gameState.currentPlayerIndex (0-based)
    turn,               \* gameState.turn
    tiles,              \* gameState.tiles: <<[type, index], ...>>
    currentState,       \* gameState.currentState
    diceResult,         \* gameState.diceResult
    pendingPoints,      \* gameState.pendingPoints
    minigameScore,      \* gameState.minigameScore
    seed,               \* gameState.rng.seed
    state,              \* TurnMachine.state
    \* observation of the last command
    lastCmd,            \* name of the last command called
    lastArg,            \* its argument (completeMinigame, movePawn, force)
    threw,              \* whether it threw
    ret,                \* value returned by rollDice, else Null
    notified,           \* onStateChange invocations it made, in order
    moveCalls,          \* moveCallback invocations it made (the positions passed)
    prev,               \* the game state it was called in
    \* history
    seed0,              \* the seed the game state was constructed with
    endTurns,           \* number of successful endTurn calls
    irregular,          \* number of irregular calls made so far
    trail,              \* the phases the machine went through last, oldest first
    applied,            \* per player: the deltas applied on the player's resolutions
    \* a call of RNG.shuffle on a generator of its own
    shuffleCall,        \* [seed, array, called, arrayAfter, result]
    rngCall,            \* a generator used on its own: [seed, op, min, max, array, int, elem, draws]
    \* the Game orchestrator (main.ts) and the UI it drives
    isMoving,           \* Game.isMoving
    flow,               \* the handleRollDice/handleMove call in flight: where it
                        \* is suspended, and the player and position it captured
    endTurnTimers,      \* pending setTimeout(() => endTurn(), 4000) callbacks
    minigameActive,     \* MinigameUI.isActive
    minigameEnding,     \* outcomes of the onComplete calls scheduled by MinigameUI.end
    victories,          \* winners whose victory animation is playing
    announced,          \* the winner handleGameEnd picked last (1-based, 0: none)
    shown,              \* the winner the end screen shows (1-based, 0: none)
    outsideWrites,      \* fields the last event changed outside the TurnMachine
    testEvents,         \* testBlueTile events dispatched so far
    lastEvent,          \* the last event the orchestrator handled
    rolled,             \* history: the last roll the orchestrator made
    \* a MinigameUI (ui/minigame-ui.ts) driven on its own
    ui,                 \* its fields and the timers it has scheduled
    uiDone,             \* history: onComplete calls per start(), the last end()
    \* a TriviaUIOverlay (ui/trivia-overlay.ts) and its TriviaMinigame
    trivia,             \* their fields, the pending submissions and auto-close timers
    triviaDone          \* history: the results of the current question session

gameVars == <<players, currentPlayerIndex, turn, tiles, currentState,
              diceResult, pendingPoints, minigameScore, seed, state>>
obsVars == <<lastCmd, lastArg, threw, ret, notified, moveCalls, prev>>
histVars == <<seed0, endTurns, irregular, applied, trail>>
orchVars == <<isMoving, flow, endTurnTimers, minigameActive, minigameEnding,
              victories, announced, shown, outsideWrites, testEvents, lastEvent,
              rolled>>
widgetVars == <<ui, uiDone, trivia, triviaDone>>
pureVars == <<shuffleCall, rngCall, widgetVars>>
vars == <<gameVars, obsVars, histVars, pureVars, orchVars>>

\* snapshot of the GameState fields and the machine state
Snapshot ==
    [players |-> players, currentPlayerIndex |-> currentPlayerIndex,
     turn |-> turn, currentState |-> currentState, diceResult |-> diceResult,
     pendingPoints |-> pendingPoints, minigameScore |-> minigameScore,
     seed |-> seed, state |-> state]

NumPlayers == Len(players)
\* TurnMachine.getCurrentPlayer (1-based index into players)
CurrentPlayer == currentPlayerIndex + 1

\* a MinigameUI after its constructor: not active, nothing scheduled
NoUi ==
    [isActive |-> FALSE, selectedAnswer |-> Null, correctAnswer |-> Null,
     options |-> FALSE, timerInterval |-> Null, session |-> 0, timers |-> {}]

NoEnd == [session |-> 0, kind |-> "none", of |-> 0]
NoUiDone == [completes |-> <<>>, lastEnd |-> NoEnd, testStarts |-> 0]

\* a TriviaUIOverlay after its constructor: no container, a TriviaMinigame
\* without question or timer
NoTrivia ==
    [container |-> FALSE, rendered |-> FALSE, disabled |-> FALSE,
     correctAnswer |-> Null, points |-> 0, timeRemaining |-> 0,
     timerInterval |-> FALSE, isPaused |-> FALSE, selectedAnswer |-> Null,
     submitting |-> <<>>, closing |-> <<>>]

NoTriviaDone == [sessions |-> 0, reported |-> <<>>, closed |-> <<>>]

\* no roll of the orchestrator recorded yet
NoRoll == [player |-> 0, from |-> 0, dice |-> 0, turn |-> 0, resolved |-> FALSE]

\* createGameState(seed, players) followed by new TurnMachine(gameState, cb),
\* for a seed of seedSet and a roster of a length in rosterSizes; arrays are
\* the arrays a separate shuffle call is prepared for
InitWith(seedSet, rosterSizes, arrays) ==
    \E s \in seedSet, n \in rosterSizes, a \in arrays :
        LET g == GenerateTiles(s)
        IN  /\ players = NewPlayers(n)
            /\ currentPlayerIndex = 0
            /\ turn = 1
            /\ tiles = g.tiles
            /\ currentState = "TURN_START"
            /\ diceResult = Null
            /\ pendingPoints = Null
            /\ minigameScore = Null
            /\ seed = g.seed
            /\ state = "TURN_START"
            /\ lastCmd = "createGameState"
            /\ lastArg = "none"
            /\ threw = FALSE
            /\ ret = Null
            /\ notified = <<>>
            /\ moveCalls = <<>>
            /\ prev = [players |-> NewPlayers(n), currentPlayerIndex |-> 0,
                       turn |-> 1, currentState |-> "TURN_START",
                       diceResult |-> Null, pendingPoints |-> Null,
                       minigameScore |-> Null, seed |-> g.seed,
                       state |-> "TURN_START"]
            /\ seed0 = s
            /\ endTurns = 0
            /\ irregular = 0
            /\ applied = [i \in 1..n |-> [sum |-> 0, reds |-> 0, count |-> 0]]
            /\ trail = <<"TURN_START">>
            /\ rngCall = [seed |-> s, op |-> "new", min |-> 0, max |-> 0,
                          array |-> <<>>, int |-> 0, elem |-> "none", draws |-> 0]
            /\ shuffleCall = [seed |-> s, array |-> a, called |-> FALSE,
                              arrayAfter |-> a, result |-> <<>>]
            /\ isMoving = FALSE
            /\ flow = [pc |-> "idle", player |-> 0, newPosition |-> 0]
            /\ endTurnTimers = 0
            /\ minigameActive = FALSE
            /\ minigameEnding = <<>>
            /\ victories = <<>>
            /\ announced = 0
            /\ shown = 0
            /\ outsideWrites = {}
            /\ testEvents = 0
            /\ lastEvent = "none"
            /\ rolled = NoRoll
            /\ ui = NoUi
            /\ uiDone = NoUiDone
            /\ trivia = NoTrivia
            /\ triviaDone = NoTriviaDone

\* a game as the selection screen sets it up: at least one player
Init == InitWith(Seeds, 1..MaxPlayers, {<<>>})

(* --------------------------- turn-machine.ts --------------------------- *)
\* Each command is an operator on the GameState fields g (a record shaped as
\* Snapshot) yielding what the call leaves: the fields, whether it threw, the
\* value returned, the onStateChange and moveCallback invocations it made, and
\* the delta it added to the current player's points (Null when none).
Outcome(g, didThrow, r, notes, calls, delta) ==
    [g |-> g, threw |-> didThrow, ret |-> r, notes |-> notes, calls |-> calls,
     delta |-> delta]

\* a guard that throws before any assignment
Throw(g) == Outcome(g, TRUE, Null, <<>>, <<>>, Null)

\* faulty variant of Notification: the callback runs before gameState.currentState is written
NotificationBeforeWrite(newState, before) == [phase |-> newState, seen |-> before]

\* the onStateChange invocation of setState(newState), entered while
\* gameState.currentState was `before`: the phase name passed to the callback
\* and the value gameState.currentState holds when the callback runs
Notification(newState, before) == [phase |-> newState, seen |-> newState]

\* TurnMachine.setState: both copies of the phase, then the callback
SetState(g, newState) ==
    [g |-> [g EXCEPT !.state = newState, !.currentState = newState],
     notes |-> <<Notification(newState, g.currentState)>>]

\* whether getCurrentPlayer() yields a player (undefined on an empty roster)
HasCurrentPlayer(g) == (g.currentPlayerIndex + 1) \in 1..Len(g.players)

\* faulty variant of StartTurnTarget: the game ends when turn reaches MAX_TURNS
StartTurnTargetGe(t) == IF t >= MAX_TURNS THEN "GAME_END" ELSE "TURN_START"

\* the phase startTurn sets
StartTurnTarget(t) == IF t > MAX_TURNS THEN "GAME_END" ELSE "TURN_START"

StartTurnOn(g) ==
    LET set == SetState(g, StartTurnTarget(g.turn))
    IN  Outcome(set.g, FALSE, Null, set.notes, <<>>, Null)

\* faulty variant of RollDiceAllowed: ROLL_DICE is the only phase refused
RollDiceAllowedLoose(st) == st # "ROLL_DICE"

RollDiceAllowed(st) == st = "TURN_START" \/ st = "ROLL_DICE"

RollDiceOn(g) ==
    IF ~RollDiceAllowed(g.state)
    THEN Throw(g)
    ELSE LET s1 == AfterRandomInt(g.seed)
             diceValue == RandomIntOf(s1, DICE_MIN, DICE_MAX)
             set == SetState([g EXCEPT !.seed = s1, !.diceResult = diceValue], "MOVE")
         IN  Outcome(set.g, FALSE, diceValue, set.notes, <<>>, Null)

\* faulty variant of NewPosition: the pawn stops on the last tile instead of wrapping
NewPositionStop(pos, steps) == IF pos + steps > 49 THEN 49 ELSE pos + steps

\* the position movePawn computes
NewPosition(pos, steps) == JsRem(pos + steps, MOVE_MODULUS)

\* movePawn(moveCallback): cb tells whether a callback is passed and what it does
MovePawnOn(g, cb) ==
    IF g.state # "MOVE" \/ g.diceResult = Null
    THEN Throw(g)
    ELSE IF ~HasCurrentPlayer(g)
    THEN \* player.pawnPosition of undefined: a TypeError before any assignment
         Throw(g)
    ELSE LET p == g.currentPlayerIndex + 1
             newPosition == NewPosition(g.players[p].pawnPosition, g.diceResult)
             moved == [g EXCEPT !.players[p].pawnPosition = newPosition]
             calls == IF cb = "none" THEN <<>> ELSE <<newPosition>>
             set == SetState(moved, "RESOLVE_TILE")
         IN  IF cb = "throws"
             THEN \* the callback throws after the position was written
                  Outcome(moved, TRUE, Null, <<>>, calls, Null)
             ELSE Outcome(set.g, FALSE, Null, set.notes, calls, Null)

\* faulty variant of TransitionToResolveTileOn: the pawn is moved as by movePawn
TransitionToResolveTileOnMoving(g) == MovePawnOn(g, "none")

\* transitionToResolveTile: the guard, then setState('RESOLVE_TILE')
TransitionToResolveTileOn(g) ==
    IF g.state # "MOVE"
    THEN Throw(g)
    ELSE LET set == SetState(g, "RESOLVE_TILE")
         IN  Outcome(set.g, FALSE, Null, set.notes, <<>>, Null)

\* faulty variant of TileOutcome: a blue tile ends the turn without a minigame
TileOutcomeSkipsMinigame(type, s) ==
    CASE type = "green"  -> [delta |-> TILE_REWARDS_GREEN, seed |-> s, next |-> "END_TURN"]
      [] type = "red"    -> [delta |-> TILE_REWARDS_RED, seed |-> s, next |-> "END_TURN"]
      [] type = "yellow" -> [delta |-> GetYellowTilePoints(AfterRandomInt(s)),
                             seed |-> AfterRandomInt(s), next |-> "END_TURN"]
      [] OTHER           -> [delta |-> Null, seed |-> s, next |-> "END_TURN"]

\* the switch of resolveTile: the delta (Null when none is applied), the seed
\* the RNG is left with, and the phase entered
TileOutcome(type, s) ==
    CASE type = "green"  -> [delta |-> TILE_REWARDS_GREEN, seed |-> s, next |-> "END_TURN"]
      [] type = "red"    -> [delta |-> TILE_REWARDS_RED, seed |-> s, next |-> "END_TURN"]
      [] type = "yellow" -> [delta |-> GetYellowTilePoints(AfterRandomInt(s)),
                             seed |-> AfterRandomInt(s), next |-> "END_TURN"]
      [] type = "blue"   -> [delta |-> Null, seed |-> s, next |-> "OPTIONAL_MINIGAME"]
      [] OTHER           -> [delta |-> Null, seed |-> s, next |-> "END_TURN"]

\* faulty variant of AddPoints: the score is floored at zero
AddPointsFloor(points, delta) == IF points + delta < 0 THEN 0 ELSE points + delta

\* player.points += delta
AddPoints(points, delta) == points + delta

ResolveTileOn(g) ==
    IF g.state # "RESOLVE_TILE"
    THEN Throw(g)
    ELSE IF ~HasCurrentPlayer(g)
    THEN \* player.pawnPosition of undefined: a TypeError before any assignment
         Throw(g)
    ELSE LET p == g.currentPlayerIndex + 1
             currentTile == tiles[g.players[p].pawnPosition + 1]
             out == TileOutcome(currentTile.type, g.seed)
             scored == IF out.delta = Null THEN g.players
                       ELSE [g.players EXCEPT ![p].points = AddPoints(@, out.delta)]
             set == SetState([g EXCEPT !.pendingPoints = out.delta,
                                       !.players = scored,
                                       !.seed = out.seed], out.next)
         IN  Outcome(set.g, FALSE, Null, set.notes, <<>>, out.delta)

CompleteMinigameOn(g, correct) ==
    IF g.state # "OPTIONAL_MINIGAME"
    THEN Throw(g)
    ELSE LET p == g.currentPlayerIndex + 1
             minigamePoints == GetMinigamePoints(correct)
             set == SetState([g EXCEPT !.minigameScore = IF correct THEN 1 ELSE 0,
                                       !.pendingPoints = minigamePoints,
                                       !.players[p].points = AddPoints(@, minigamePoints)],
                             "END_TURN")
         IN  Outcome(set.g, FALSE, Null, set.notes, <<>>, minigamePoints)

\* the values endTurn leaves in the turn-scoped fields
TurnScopedReset ==
    [diceResult |-> Null, pendingPoints |-> Null, minigameScore |-> Null]

\* faulty variant of NextPlayerIndex: the index does not wrap to the first player
NextPlayerIndexNoWrap(i, numPlayers) == i + 1

\* the player index endTurn advances to
NextPlayerIndex(i, numPlayers) == (i + 1) % numPlayers

\* faulty variant of NextTurn: the counter is incremented at every endTurn
NextTurnAlways(t, newIndex) == t + 1

\* the turn counter endTurn leaves, given the index it advanced to
NextTurn(t, newIndex) == IF newIndex = 0 THEN t + 1 ELSE t

\* faulty variant of EndTurnAllowed: a turn can also be ended once the game is over
EndTurnAllowedAfterEnd(st) == st = "END_TURN" \/ st = "GAME_END"

\* the phase endTurn is legal in
EndTurnAllowed(st) == st = "END_TURN"

EndTurnOn(g) ==
    IF ~EndTurnAllowed(g.state)
    THEN Throw(g)
    ELSE LET newIndex == NextPlayerIndex(g.currentPlayerIndex, Len(g.players))
             newTurn == NextTurn(g.turn, newIndex)
             reset == [g EXCEPT !.currentPlayerIndex = newIndex,
                                !.turn = newTurn,
                                !.diceResult = TurnScopedReset.diceResult,
                                !.pendingPoints = TurnScopedReset.pendingPoints,
                                !.minigameScore = TurnScopedReset.minigameScore]
         IN  IF newTurn > MAX_TURNS
             THEN LET set == SetState(reset, "GAME_END")
                  IN  Outcome(set.g, FALSE, Null, set.notes, <<>>, Null)
             ELSE StartTurnOn(reset)

\* forceStateForTesting: both copies of the phase, no callback
ForceStateForTestingOn(g, newState) ==
    Outcome([g EXCEPT !.state = newState, !.currentState = newState],
            FALSE, Null, <<>>, <<>>, Null)

(* ------------------------ TurnMachine commands ------------------------- *)
\* One action per public method, called directly on the machine.

\* the GameState fields and the machine state become those of g
Install(g) ==
    /\ players' = g.players
    /\ currentPlayerIndex' = g.currentPlayerIndex
    /\ turn' = g.turn
    /\ currentState' = g.currentState
    /\ diceResult' = g.diceResult
    /\ pendingPoints' = g.pendingPoints
    /\ minigameScore' = g.minigameScore
    /\ seed' = g.seed
    /\ state' = g.state
    /\ UNCHANGED tiles

\* what a command call leaves in the observation variables
Observe(cmd, arg, out) ==
    /\ lastCmd' = cmd
    /\ lastArg' = arg
    /\ threw' = out.threw
    /\ ret' = out.ret
    /\ notified' = out.notes
    /\ moveCalls' = out.calls
    /\ prev' = Snapshot
    /\ UNCHANGED <<pureVars, orchVars>>

\* the record of the deltas applied to player i, after one more resolution
Applied(i, delta, onRed) ==
    [applied EXCEPT ![i] = [sum |-> @.sum + delta,
                            reds |-> @.reds + (IF onRed THEN 1 ELSE 0),
                            count |-> @.count + 1]]

\* the record of applied deltas after a command with outcome out was called
\* on the fields g
AppliedOn(g, cmd, out) ==
    IF out.delta = Null THEN applied
    ELSE Applied(g.currentPlayerIndex + 1, out.delta,
                 cmd = "resolveTile"
                   /\ tiles[g.players[g.currentPlayerIndex + 1].pawnPosition + 1].type = "red")

AppliedAfter(cmd, out) == AppliedOn(Snapshot, cmd, out)

\* the phases a call with outcome out entered, starting from the fields g0:
\* those passed to setState, or the one written without a notification
PhasesEntered(g0, out) ==
    IF out.notes # <<>> THEN [k \in 1..Len(out.notes) |-> out.notes[k].phase]
    ELSE IF out.g.state # g0.state THEN <<out.g.state>>
    ELSE <<>>

\* the trail tr after phase p was written: a phase written over itself is
\* no change of phase, and the oldest entry leaves a full trail
EnteredOne(tr, p) ==
    IF tr # <<>> /\ tr[Len(tr)] = p THEN tr
    ELSE IF Len(tr) < TrailLen THEN Append(tr, p)
    ELSE Append(Tail(tr), p)

\* the trail tr after the phases were entered in their order
RECURSIVE Entered(_, _)
Entered(tr, phases) ==
    IF phases = <<>> THEN tr
    ELSE Entered(EnteredOne(tr, Head(phases)), Tail(phases))

\* a direct call of a command with outcome out
Command(cmd, arg, out) ==
    /\ Install(out.g)
    /\ Observe(cmd, arg, out)
    /\ applied' = AppliedAfter(cmd, out)
    /\ trail' = Entered(trail, PhasesEntered(Snapshot, out))
    /\ UNCHANGED seed0

\* whether the exploration bounds admit one more irregular call
MayBeIrregular == irregular < MaxIrregular /\ endTurns < ExploreTurns

StartTurn ==
    LET out == StartTurnOn(Snapshot)
        restart == out.g.state # state
    IN  /\ restart => MayBeIrregular
        /\ Command("startTurn", "none", out)
        /\ irregular' = IF restart THEN irregular + 1 ELSE irregular
        /\ UNCHANGED endTurns

RollDice ==
    /\ Command("rollDice", "none", RollDiceOn(Snapshot))
    /\ UNCHANGED <<endTurns, irregular>>

MovePawn(cb) ==
    LET out == MovePawnOn(Snapshot, cb)
        \* the callback was reached and threw
        callbackThrew == out.threw /\ out.calls # <<>>
    IN  /\ callbackThrew => MayBeIrregular
        /\ Command("movePawn", cb, out)
        /\ irregular' = IF callbackThrew THEN irregular + 1 ELSE irregular
        /\ UNCHANGED endTurns

TransitionToResolveTile ==
    LET out == TransitionToResolveTileOn(Snapshot)
    IN  /\ ~out.threw => MayBeIrregular
        /\ Command("transitionToResolveTile", "none", out)
        /\ irregular' = IF out.threw THEN irregular ELSE irregular + 1
        /\ UNCHANGED endTurns

ResolveTile ==
    /\ Command("resolveTile", "none", ResolveTileOn(Snapshot))
    /\ UNCHANGED <<endTurns, irregular>>

CompleteMinigame(correct) ==
    /\ Command("completeMinigame", IF correct THEN "true" ELSE "false",
               CompleteMinigameOn(Snapshot, correct))
    /\ UNCHANGED <<endTurns, irregular>>

EndTurn ==
    LET out == EndTurnOn(Snapshot)
    IN  /\ Command("endTurn", "none", out)
        /\ endTurns' = IF out.threw THEN endTurns ELSE endTurns + 1
        /\ UNCHANGED irregular

ForceStateForTesting(newState) ==
    /\ MayBeIrregular
    /\ Command("forceStateForTesting", newState,
               ForceStateForTestingOn(Snapshot, newState))
    /\ irregular' = irregular + 1
    /\ UNCHANGED endTurns

(* ------------------------- Game orchestrator --------------------------- *)
\* main.ts: the events the Game handles, each taken up to its next await or
\* return.  The TurnMachine is called through the operators above.

\* the options of a trivia question
TRIVIA_OPTIONS == <<"option0", "option1", "option2", "option3">>

\* MinigameUI.start on the fields g: getRandomTriviaQuestion and
\* shuffleTriviaOptions draw from gameState.rng, the generator the UI was given
MinigameStartOn(g) ==
    [g EXCEPT !.seed = Shuffle(TRIVIA_OPTIONS, RngNext(g.seed)).seed]

\* what MinigameUI.start on the fields g changes outside the TurnMachine
DrawnOutside(g) == IF MinigameStartOn(g).seed # g.seed THEN {"rng"} ELSE {}

\* faulty variant of WinnerOf: the roster is sorted by ascending points
WinnerOfAscending(ps) ==
    CHOOSE i \in 1..Len(ps) :
        \A j \in 1..Len(ps) :
            ps[i].points < ps[j].points \/ (ps[i].points = ps[j].points /\ i <= j)

\* [...players].sort((a, b) => b.points - a.points)[0]: the sort is stable, so
\* the first player of the roster among those with the most points
WinnerOf(ps) ==
    CHOOSE i \in 1..Len(ps) :
        \A j \in 1..Len(ps) :
            ps[i].points > ps[j].points \/ (ps[i].points = ps[j].points /\ i <= j)

NoFlow == [pc |-> "idle", player |-> 0, newPosition |-> 0]

\* the target handleMove computes from the captured position and the dice
MoveTargetOfDiceOnly(position, dice) == JsRem(dice, 50)
MoveTarget(position, dice) == JsRem(position + dice, 50)

\* whether the exploration bounds admit one more testBlueTile event: early in
\* the game or once it has ended
MayTest ==
    /\ testEvents < MaxTestEvents
    /\ (endTurns < ExploreTurns \/ state = "GAME_END")

\* an event of the orchestrator that leaves the variables of direct command
\* calls and of the separate shuffle call alone
GameEvent(name) ==
    /\ lastEvent' = name
    /\ UNCHANGED <<obsVars, pureVars, seed0, irregular>>

\* handleRollDice up to the dice animation: a click on the roll button
ClickRollDice ==
    /\ ~isMoving
    /\ RollDiceAllowed(state)
    /\ LET out == RollDiceOn(Snapshot)
       IN  /\ Install(out.g)
           /\ trail' = Entered(trail, PhasesEntered(Snapshot, out))
           /\ isMoving' = TRUE
           /\ flow' = [NoFlow EXCEPT !.pc = "diceAnimation"]
           /\ rolled' = IF out.threw THEN rolled
                        ELSE [player |-> CurrentPlayer,
                              from |-> players[CurrentPlayer].pawnPosition,
                              dice |-> out.g.diceResult,
                              turn |-> endTurns,
                              resolved |-> FALSE]
    /\ outsideWrites' = {}
    /\ GameEvent("rollClick")
    /\ UNCHANGED <<endTurnTimers, minigameActive, minigameEnding, victories,
                   announced, shown, testEvents, endTurns, applied>>

\* the dice animation resolves: handleRollDice clears isMoving and calls
\* handleMove, which returns early or captures the player and the target
DiceAnimationDone ==
    /\ flow.pc = "diceAnimation"
    /\ IF state # "MOVE" \/ diceResult = Null \/ diceResult < 1
       THEN /\ isMoving' = FALSE
            /\ flow' = NoFlow
       ELSE /\ isMoving' = TRUE
            /\ flow' = [pc |-> "moveAnimation", player |-> CurrentPlayer,
                        newPosition |-> MoveTarget(players[CurrentPlayer].pawnPosition,
                                                   diceResult)]
    /\ outsideWrites' = {}
    /\ GameEvent("diceAnimationDone")
    /\ UNCHANGED <<gameVars, trail, endTurnTimers, minigameActive, minigameEnding,
                   victories, announced, shown, testEvents, endTurns, applied,
                   rolled>>

\* the frame wait and the pawn animation resolve: handleMove writes the
\* position itself, then calls transitionToResolveTile and resolveTile; the
\* state-change callback of resolveTile starts the minigame on a blue tile.
\* Each intermediate result is bound once, as the value of a one-element set
MoveAnimationDone ==
    /\ flow.pc = "moveAnimation"
    /\ \E g1 \in {[Snapshot EXCEPT !.players[flow.player].pawnPosition = flow.newPosition]} :
       \E out1 \in {TransitionToResolveTileOn(g1)} :
       \E out2 \in {ResolveTileOn(out1.g)} :
       \E blue \in {out2.g.state = "OPTIONAL_MINIGAME"} :
       \E after \in {IF blue THEN MinigameStartOn(out2.g) ELSE out2.g} :
       \E drawn \in {IF blue THEN DrawnOutside(out2.g) ELSE {}} :
       \E entered \in {PhasesEntered(g1, out1) \o PhasesEntered(out1.g, out2)} :
           /\ outsideWrites' =
                 (IF g1 # Snapshot THEN {"pawnPosition"} ELSE {})
                   \cup (IF ~out1.threw /\ ~out2.threw THEN drawn ELSE {})
           /\ IF out1.threw \/ out2.threw
              THEN \* caught by handleMove
                   /\ Install(out1.g)
                   /\ trail' = Entered(trail, PhasesEntered(g1, out1))
                   /\ isMoving' = FALSE
                   /\ flow' = NoFlow
                   /\ UNCHANGED <<minigameActive, applied, rolled>>
              ELSE /\ Install(after)
                   /\ trail' = Entered(trail, entered)
                   /\ minigameActive' = (blue \/ minigameActive)
                   /\ applied' = AppliedOn(out1.g, "resolveTile", out2)
                   /\ flow' = [flow EXCEPT !.pc = "landedWait"]
                   /\ rolled' = [rolled EXCEPT !.resolved = TRUE]
                   /\ UNCHANGED isMoving
    /\ GameEvent("moveAnimationDone")
    /\ UNCHANGED <<endTurnTimers, minigameEnding, victories, announced, shown,
                   testEvents, endTurns>>

\* the two seconds after landing are over: handleTileResolved clears isMoving
\* and, unless the current player stands on a blue tile, schedules endTurn
LandedWaitDone ==
    /\ flow.pc = "landedWait"
    /\ isMoving' = FALSE
    /\ flow' = NoFlow
    /\ endTurnTimers' =
          IF tiles[players[CurrentPlayer].pawnPosition + 1].type # "blue"
          THEN endTurnTimers + 1 ELSE endTurnTimers
    /\ outsideWrites' = {}
    /\ GameEvent("landedWaitDone")
    /\ UNCHANGED <<gameVars, trail, minigameActive, minigameEnding, victories,
                   announced, shown, testEvents, endTurns, applied,
                   rolled>>

\* a scheduled endTurn runs; entering GAME_END, the state-change callback is
\* handleGameEnd, which picks the winner and starts the victory animation
EndTurnTimer ==
    /\ endTurnTimers > 0
    /\ endTurnTimers' = endTurnTimers - 1
    /\ \E out \in {EndTurnOn(Snapshot)} :
       \E ended \in {~out.threw /\ out.g.state = "GAME_END"} :
           /\ Install(out.g)
           /\ trail' = Entered(trail, PhasesEntered(Snapshot, out))
           /\ endTurns' = IF out.threw THEN endTurns ELSE endTurns + 1
           /\ announced' = IF ended THEN WinnerOf(out.g.players) ELSE announced
           /\ victories' = IF ended THEN Append(victories, WinnerOf(out.g.players))
                           ELSE victories
           /\ GameEvent(IF ended THEN "gameEnd"
                        ELSE IF out.threw THEN "endTurnThrew" ELSE "endTurnTimer")
    /\ outsideWrites' = {}
    /\ UNCHANGED <<isMoving, flow, minigameActive, minigameEnding, shown,
                   testEvents, applied,
                   rolled>>

\* the victory animation resolves: EndScreen.show sorts the roster again
VictoryAnimationDone ==
    /\ victories # <<>>
    /\ victories' = Tail(victories)
    /\ shown' = WinnerOf(players)
    /\ outsideWrites' = {}
    /\ GameEvent("victoryAnimationDone")
    /\ UNCHANGED <<gameVars, trail, isMoving, flow, endTurnTimers, minigameActive,
                   minigameEnding, announced, testEvents, endTurns, applied,
                   rolled>>

\* MinigameUI.end(correct), reached from an answer or from the countdown
MinigameEnds(correct) ==
    /\ minigameActive
    /\ minigameActive' = FALSE
    /\ minigameEnding' = Append(minigameEnding, correct)
    /\ outsideWrites' = {}
    /\ GameEvent("minigameEnd")
    /\ UNCHANGED <<gameVars, trail, isMoving, flow, endTurnTimers, victories,
                   announced, shown, testEvents, endTurns, applied,
                   rolled>>

\* the onComplete scheduled by end runs handleMinigameComplete: completeMinigame
\* and, unless it threw, a scheduled endTurn.  It runs at least 3.5 s after
\* start(), hence after a landing wait (2 s) that was pending at start()
MinigameCompletes ==
    /\ minigameEnding # <<>>
    /\ flow.pc # "landedWait"
    /\ minigameEnding' = Tail(minigameEnding)
    /\ \E out \in {CompleteMinigameOn(Snapshot, Head(minigameEnding))} :
           /\ Install(out.g)
           /\ trail' = Entered(trail, PhasesEntered(Snapshot, out))
           /\ applied' = AppliedOn(Snapshot, "completeMinigame", out)
           /\ endTurnTimers' = IF out.threw THEN endTurnTimers ELSE endTurnTimers + 1
    /\ outsideWrites' = {}
    /\ GameEvent("minigameComplete")
    /\ UNCHANGED <<isMoving, flow, minigameActive, victories, announced, shown,
                   testEvents, endTurns,
                   rolled>>

\* the testBlueTile event of the developer panel: testBlueTileMinigame forces
\* OPTIONAL_MINIGAME and starts the minigame
TestBlueTile ==
    /\ MayTest
    /\ testEvents' = testEvents + 1
    /\ Install(MinigameStartOn(ForceStateForTestingOn(Snapshot, "OPTIONAL_MINIGAME").g))
    /\ trail' = Entered(trail, PhasesEntered(Snapshot,
                            ForceStateForTestingOn(Snapshot, "OPTIONAL_MINIGAME")))
    /\ minigameActive' = TRUE
    /\ outsideWrites' = DrawnOutside(Snapshot)
    /\ GameEvent("testBlueTile")
    /\ UNCHANGED <<isMoving, flow, endTurnTimers, minigameEnding, victories,
                   announced, shown, endTurns, applied,
                   rolled>>

(* ---------------------------- minigame-ui.ts -------------------------- *)
\* The MinigameUI on its own.  A timer is a record [kind, of, correct]: of is
\* the number of the start() call during whose session it was scheduled.
\* Timers fire in any order; the 100 ms interval is live while timerInterval
\* holds its number.
AnswerIndexes == 0..3

UiTimer(kind, of, correct) == [kind |-> kind, of |-> of, correct |-> correct]

\* no session is in progress: the last one has delivered its onComplete
UiIdle ==
    /\ ~ui.isActive
    /\ \A t \in ui.timers : t.kind = "safety"

\* MinigameUI.end(correct) on the fields u
EndOn(u, correct) ==
    IF ~u.isActive THEN u
    ELSE [u EXCEPT !.isActive = FALSE,
                   !.timerInterval = Null,
                   !.timers = @ \cup {UiTimer("complete", u.session, correct)}]

\* the record of the last end() that went past its guard, after end was
\* called on the fields u by a timer of the given kind and start()
EndedBy(u, kind, of) ==
    IF ~u.isActive THEN uiDone
    ELSE [uiDone EXCEPT !.lastEnd = [session |-> u.session, kind |-> kind, of |-> of]]

UiStep ==
    UNCHANGED <<gameVars, obsVars, histVars, orchVars, shuffleCall, rngCall,
                trivia, triviaDone>>

\* MinigameUI.start(), called by handleStartMinigame: after a blue tile was
\* resolved, when the previous session is over, or at any moment by the
\* testBlueTile listener.  The question drawn has its correct option at index c
UiStart(c, viaTestButton) ==
    /\ ui.session < MaxSessions
    /\ viaTestButton \/ UiIdle
    /\ ui' = [ui EXCEPT !.isActive = TRUE,
                        !.selectedAnswer = Null,
                        !.correctAnswer = c,
                        !.options = TRUE,
                        !.timerInterval = ui.session + 1,
                        !.session = ui.session + 1,
                        !.timers = @ \cup {UiTimer("safety", ui.session + 1, FALSE)}]
    /\ uiDone' = [uiDone EXCEPT !.completes = Append(@, 0),
                                !.testStarts = @ + (IF viaTestButton THEN 1 ELSE 0)]
    /\ UiStep

\* a click on option index: selectAnswer
UiSelectAnswer(index) ==
    /\ ui.options
    /\ ui.isActive /\ ui.selectedAnswer = Null
    /\ ui' = [ui EXCEPT !.selectedAnswer = index,
                        !.timers = @ \cup {UiTimer("answer", ui.session,
                                                   index = ui.correctAnswer)}]
    /\ UNCHANGED uiDone
    /\ UiStep

\* the interval callback of start(); timeUp: 15 s have passed since startTime
UiIntervalTick(timeUp) ==
    /\ ui.timerInterval # Null
    /\ IF ui.selectedAnswer # Null
       THEN /\ ui' = [ui EXCEPT !.timerInterval = Null]
            /\ UNCHANGED uiDone
       ELSE IF timeUp
       THEN /\ ui' = EndOn(ui, FALSE)
            /\ uiDone' = EndedBy(ui, "interval", ui.timerInterval)
       ELSE UNCHANGED <<ui, uiDone>>
    /\ UiStep

\* the safety timeout scheduled by a start()
UiSafetyTimeout ==
    /\ \E t \in ui.timers :
          /\ t.kind = "safety"
          /\ \E u \in {[ui EXCEPT !.timers = @ \ {t}]} :
                IF u.isActive /\ u.selectedAnswer = Null
                THEN /\ ui' = EndOn(u, FALSE)
                     /\ uiDone' = EndedBy(u, "safety", t.of)
                ELSE /\ ui' = u
                     /\ UNCHANGED uiDone
    /\ UiStep

\* the timeout scheduled by selectAnswer: end(correct)
UiAnswerTimeout ==
    /\ \E t \in ui.timers :
          /\ t.kind = "answer"
          /\ \E u \in {[ui EXCEPT !.timers = @ \ {t}]} :
                /\ ui' = EndOn(u, t.correct)
                /\ uiDone' = EndedBy(u, "answer", t.of)
    /\ UiStep

\* the timeout scheduled by end: hide() and onComplete(correct)
UiCompleteTimeout ==
    /\ \E t \in ui.timers :
          /\ t.kind = "complete"
          /\ ui' = [ui EXCEPT !.timers = @ \ {t},
                              !.selectedAnswer = Null,
                              !.correctAnswer = Null,
                              !.options = FALSE]
          /\ uiDone' = [uiDone EXCEPT !.completes[t.of] = @ + 1]
    /\ UiStep

(* --------------------- trivia.ts, trivia-overlay.ts -------------------- *)
\* POINTS by difficulty
QuestionPoints == {10, 20, 30}

\* a MinigameResult: by tells whether submitAnswer or handleTimeout built it
TriviaResult(success, pointsEarned, by) ==
    [success |-> success, pointsEarned |-> pointsEarned, by |-> by]

\* minigame.onComplete(result), which the overlay set to showResult: without
\* container it returns, else it schedules the auto-close
Reported(t, d, result) ==
    [trivia |-> [t EXCEPT !.closing = IF t.container THEN Append(@, result) ELSE @],
     done |-> [d EXCEPT !.reported = Append(@, result)]]

TriviaStep ==
    UNCHANGED <<gameVars, obsVars, histVars, orchVars, shuffleCall, rngCall,
                ui, uiDone>>

\* overlay.show(): the container, minigame.initialize (question loaded, or
\* none: q = Null) and minigame.start.  limit: the seconds on the countdown
TriviaShow(q, points, limit) ==
    /\ triviaDone.sessions < MaxSessions
    /\ ~trivia.container /\ trivia.submitting = <<>> /\ trivia.closing = <<>>
    /\ ~trivia.timerInterval
    /\ trivia' = [trivia EXCEPT !.container = TRUE,
                                !.rendered = (q # Null),
                                !.disabled = FALSE,
                                !.correctAnswer = q,
                                !.points = IF q = Null THEN 0 ELSE points,
                                !.timeRemaining = limit,
                                !.timerInterval = TRUE,
                                !.isPaused = FALSE]
    /\ triviaDone' = [sessions |-> triviaDone.sessions + 1,
                      reported |-> <<>>, closed |-> <<>>]
    /\ TriviaStep

\* the interval callback of minigame.start; at zero it calls handleTimeout.
\* The overlay never calls pause(), so isPaused stays false
TriviaTick ==
    /\ trivia.timerInterval
    /\ ~trivia.isPaused
    /\ IF trivia.timeRemaining - 1 <= 0
       THEN \E out \in {Reported([trivia EXCEPT !.timeRemaining = @ - 1,
                                                 !.timerInterval = FALSE],
                                  triviaDone, TriviaResult(FALSE, 0, "timeout"))} :
               /\ trivia' = out.trivia
               /\ triviaDone' = out.done
       ELSE /\ trivia' = [trivia EXCEPT !.timeRemaining = @ - 1]
            /\ UNCHANGED triviaDone
    /\ TriviaStep

\* a click on an enabled option button: handleAnswer disables the buttons and
\* calls submitAnswer, which runs up to its await of recordAnswer
TriviaClick(index) ==
    /\ trivia.container /\ trivia.rendered /\ ~trivia.disabled
    /\ trivia' = [trivia EXCEPT !.disabled = TRUE,
                                !.selectedAnswer = index,
                                !.timerInterval = FALSE,
                                !.submitting = Append(@, index = trivia.correctAnswer)]
    /\ UNCHANGED triviaDone
    /\ TriviaStep

\* recordAnswer resolves: submitAnswer builds the result and calls onComplete
TriviaRecorded ==
    /\ trivia.submitting # <<>>
    /\ \E correct \in {Head(trivia.submitting)} :
       \E out \in {Reported([trivia EXCEPT !.submitting = Tail(@)], triviaDone,
                            TriviaResult(correct,
                                         IF correct THEN trivia.points ELSE 0,
                                         "answer"))} :
          /\ trivia' = out.trivia
          /\ triviaDone' = out.done
    /\ TriviaStep

\* the auto-close scheduled by showResult: hide() and the overlay's onComplete
TriviaAutoClose ==
    /\ trivia.closing # <<>>
    /\ trivia' = [trivia EXCEPT !.closing = Tail(@),
                                !.container = FALSE,
                                !.rendered = FALSE]
    /\ triviaDone' = [triviaDone EXCEPT !.closed = Append(@, Head(trivia.closing))]
    /\ TriviaStep

(* ---------------------------- specifications --------------------------- *)
\* the public commands of the TurnMachine
Next ==
    \/ StartTurn
    \/ RollDice
    \/ \E cb \in {"none", "returns", "throws"} : MovePawn(cb)
    \/ TransitionToResolveTile
    \/ ResolveTile
    \/ \E correct \in BOOLEAN : CompleteMinigame(correct)
    \/ EndTurn

Spec == Init /\ [][Next]_vars

\* the public commands on a game constructed with any roster, the empty one included
InitAnyRoster == InitWith(Seeds, 0..MaxPlayers, {<<>>})

SpecAnyRoster == InitAnyRoster /\ [][Next]_vars

\* the arrays shuffle is called with
ShuffleInputs ==
    UNION {[1..n -> Letters] : n \in 0..MaxLen} \cup {TileTypes}

\* new RNG(seed).shuffle(array), where array is still held by the caller
CallShuffle ==
    /\ ~shuffleCall.called
    /\ LET out == Shuffle(shuffleCall.array, shuffleCall.seed)
       IN  shuffleCall' = [shuffleCall EXCEPT !.called = TRUE,
                                              !.arrayAfter = out.array,
                                              !.result = out.result]
    /\ UNCHANGED <<gameVars, obsVars, histVars, orchVars, rngCall, widgetVars>>

\* createGameState and a shuffle call, for every seed of ShuffleSeeds
InitShuffle == InitWith(ShuffleSeeds, {1}, ShuffleInputs)

SpecShuffle == InitShuffle /\ [][CallShuffle]_vars

\* the ranges randomInt is called with and the arrays pick is called with
IntRanges == {<<1, 6>>, <<0, 3>>, <<0, 44>>, <<5, 5>>, <<0 - 2, 2>>}
PickInputs == {<<"a">>, <<"a", "b", "c">>}

\* the record of one more call on the generator rngCall stands for
RngCalled(op, min, max, array, s1, int, elem) ==
    [seed |-> s1, op |-> op, min |-> min, max |-> max, array |-> array,
     int |-> int, elem |-> elem, draws |-> rngCall.draws + 1]

\* rng.random(): the value returned is rngCall.seed / 233280
CallRandom ==
    /\ rngCall.draws < MaxDraws
    /\ rngCall' = RngCalled("random", 0, 0, <<>>, RngNext(rngCall.seed), 0, "none")
    /\ UNCHANGED <<gameVars, obsVars, histVars, orchVars, shuffleCall, widgetVars>>

\* rng.randomInt(min, max)
CallRandomInt(min, max) ==
    /\ rngCall.draws < MaxDraws
    /\ LET s1 == RngNext(rngCall.seed)
       IN  rngCall' = RngCalled("randomInt", min, max, <<>>, s1,
                                RandomIntOf(s1, min, max), "none")
    /\ UNCHANGED <<gameVars, obsVars, histVars, orchVars, shuffleCall, widgetVars>>

\* rng.pick(array)
CallPick(array) ==
    /\ rngCall.draws < MaxDraws
    /\ LET s1 == RngNext(rngCall.seed)
       IN  rngCall' = RngCalled("pick", 0, 0, array, s1, 0, PickOf(s1, array))
    /\ UNCHANGED <<gameVars, obsVars, histVars, orchVars, shuffleCall, widgetVars>>

NextRng ==
    \/ CallRandom
    \/ \E r \in IntRanges : CallRandomInt(r[1], r[2])
    \/ \E a \in PickInputs : CallPick(a)

\* new RNG(seed) for every seed of RngSeeds, then calls in any order
InitRng == InitWith(RngSeeds, {1}, {<<>>})

SpecRng == InitRng /\ [][NextRng]_vars

\* the public commands and the test-only bypass
NextForce ==
    \/ Next
    \/ \E s \in TurnState : ForceStateForTesting(s)

SpecForce == Init /\ [][NextForce]_vars

\* a game run by the Game orchestrator: the selection screen gives 2 or more
\* players, the constructor calls startTurn, then events arrive in any order
InitGame == InitWith(Seeds, 2..MaxPlayers, {<<>>})

NextGame ==
    \/ ClickRollDice
    \/ DiceAnimationDone
    \/ MoveAnimationDone
    \/ LandedWaitDone
    \/ EndTurnTimer
    \/ VictoryAnimationDone
    \/ \E correct \in BOOLEAN : MinigameEnds(correct)
    \/ MinigameCompletes
    \/ TestBlueTile

SpecGame == InitGame /\ [][NextGame]_vars

\* the same game when every animation, every timer and the minigame UI
\* complete: promises resolve, setTimeout callbacks run, and a started
\* minigame ends by an answer or by its countdown.  Clicks are not forced.
GameFairness ==
    /\ WF_vars(DiceAnimationDone)
    /\ WF_vars(MoveAnimationDone)
    /\ WF_vars(LandedWaitDone)
    /\ WF_vars(EndTurnTimer)
    /\ WF_vars(VictoryAnimationDone)
    /\ WF_vars(\E correct \in BOOLEAN : MinigameEnds(correct))
    /\ WF_vars(MinigameCompletes)

SpecGameFair == SpecGame /\ GameFairness

\* a MinigameUI receiving start() calls, clicks and its own timers
InitUi == InitWith({42}, {1}, {<<>>})

NextUi ==
    \/ \E c \in AnswerIndexes, viaTestButton \in BOOLEAN : UiStart(c, viaTestButton)
    \/ \E index \in AnswerIndexes : UiSelectAnswer(index)
    \/ \E timeUp \in BOOLEAN : UiIntervalTick(timeUp)
    \/ UiSafetyTimeout
    \/ UiAnswerTimeout
    \/ UiCompleteTimeout

SpecUi == InitUi /\ [][NextUi]_vars

\* a TriviaUIOverlay being shown, clicked and driven by its timers
InitTrivia == InitWith({42}, {1}, {<<>>})

NextTrivia ==
    \/ \E q \in AnswerIndexes \cup {Null}, points \in QuestionPoints, limit \in 1..MaxTicks :
          TriviaShow(q, points, limit)
    \/ TriviaTick
    \/ \E index \in AnswerIndexes : TriviaClick(index)
    \/ TriviaRecorded
    \/ TriviaAutoClose

SpecTrivia == InitTrivia /\ [][NextTrivia]_vars

TypeOK ==
    /\ state \in TurnState
    /\ currentState = state
    /\ currentPlayerIndex \in 0..(NumPlayers - 1)
    /\ turn \in 1..(MAX_TURNS + 1)
    /\ seed \in 0..(RNG_M - 1)

(* ------------------------------- claims -------------------------------- *)
\* the player (1-based) whose turn the last command was called in
PrevPlayer == prev.currentPlayerIndex + 1
\* the type of the tile the current player stood on when the last command was called
PrevTile == tiles[prev.players[PrevPlayer].pawnPosition + 1].type
Succeeded(cmd) == lastCmd = cmd /\ ~threw
\* every player other than the one whose turn it was is as before the call
OthersUnchanged ==
    \A i \in 1..NumPlayers : i # PrevPlayer => players[i] = prev.players[i]
PointsUnchanged ==
    \A i \in 1..NumPlayers : players[i].points = prev.players[i].points
PositionsUnchanged ==
    \A i \in 1..NumPlayers : players[i].pawnPosition = prev.players[i].pawnPosition

\* C1: every command called in a phase other than its permitted one throws:
\* rollDice outside TURN_START/ROLL_DICE, movePawn and transitionToResolveTile
\* outside MOVE, resolveTile outside RESOLVE_TILE, completeMinigame outside
\* OPTIONAL_MINIGAME, endTurn outside END_TURN, and movePawn in MOVE while
\* diceResult is null.
C1_IllegalCommandThrows ==
    /\ (lastCmd = "rollDice" /\ prev.state \notin {"TURN_START", "ROLL_DICE"}) => threw
    /\ (lastCmd = "movePawn" /\ prev.state # "MOVE") => threw
    /\ (lastCmd = "movePawn" /\ prev.state = "MOVE" /\ prev.diceResult = Null) => threw
    /\ (lastCmd = "transitionToResolveTile" /\ prev.state # "MOVE") => threw
    /\ (lastCmd = "resolveTile" /\ prev.state # "RESOLVE_TILE") => threw
    /\ (lastCmd = "completeMinigame" /\ prev.state # "OPTIONAL_MINIGAME") => threw
    /\ (lastCmd = "endTurn" /\ prev.state # "END_TURN") => threw

\* C1 witness: movePawn was called in MOVE with no dice result, and threw
C1_Witness ==
    /\ lastCmd = "movePawn" /\ lastArg = "none"
    /\ prev.state = "MOVE" /\ prev.diceResult = Null
    /\ threw

\* the phase changes the turn flow consists of
LegalEdges ==
    {<<"TURN_START", "MOVE">>, <<"ROLL_DICE", "MOVE">>, <<"MOVE", "RESOLVE_TILE">>,
     <<"RESOLVE_TILE", "END_TURN">>, <<"RESOLVE_TILE", "OPTIONAL_MINIGAME">>,
     <<"OPTIONAL_MINIGAME", "END_TURN">>, <<"END_TURN", "TURN_START">>,
     <<"END_TURN", "GAME_END">>}

\* C2: over the public commands the phase changes only along the legal edges;
\* in particular no command returns a started turn to TURN_START before endTurn.
C2_OnlyLegalEdges ==
    [][state' # state => <<state, state'>> \in LegalEdges]_vars

TileDeltas(type) ==
    CASE type = "green" -> {3}
      [] type = "red" -> {0 - 3}
      [] type = "yellow" -> {5, 2, 0 - 2, 0 - 5}
      [] OTHER -> {}

\* C6: a successful resolveTile on a green, red or yellow tile stores the
\* delta (+3, -3, or one of 5, 2, -2, -5) in pendingPoints, adds exactly it to
\* the current player's points and to no other player's, and enters END_TURN.
C6_ResolveTile ==
    (Succeeded("resolveTile") /\ PrevTile \in {"green", "red", "yellow"}) =>
        /\ pendingPoints \in TileDeltas(PrevTile)
        /\ players[PrevPlayer].points = prev.players[PrevPlayer].points + pendingPoints
        /\ OthersUnchanged
        /\ PositionsUnchanged
        /\ state = "END_TURN"

\* C6 witness: a yellow tile that cost five points
C6_Witness ==
    /\ Succeeded("resolveTile") /\ PrevTile = "yellow"
    /\ pendingPoints = 0 - 5
    /\ players[PrevPlayer].points = prev.players[PrevPlayer].points - 5

\* C7: resolveTile on a blue tile enters OPTIONAL_MINIGAME with pendingPoints
\* null and no points changed; completeMinigame(true) then stores 10 in
\* pendingPoints and adds 10 to the current player, completeMinigame(false)
\* stores and adds 0; both record the outcome in minigameScore and enter END_TURN.
C7_MinigamePath ==
    /\ (Succeeded("resolveTile") /\ PrevTile = "blue") =>
          /\ state = "OPTIONAL_MINIGAME"
          /\ pendingPoints = Null
          /\ players = prev.players
    /\ Succeeded("completeMinigame") =>
          /\ prev.state = "OPTIONAL_MINIGAME"
          /\ pendingPoints = (IF lastArg = "true" THEN 10 ELSE 0)
          /\ minigameScore = (IF lastArg = "true" THEN 1 ELSE 0)
          /\ players[PrevPlayer].points = prev.players[PrevPlayer].points + pendingPoints
          /\ OthersUnchanged
          /\ PositionsUnchanged
          /\ state = "END_TURN"

\* C7 witness: a won minigame on a blue tile, entered with pendingPoints null
C7_Witness ==
    /\ Succeeded("completeMinigame") /\ lastArg = "true"
    /\ PrevTile = "blue" /\ prev.pendingPoints = Null
    /\ pendingPoints = 10
    /\ players[PrevPlayer].points = prev.players[PrevPlayer].points + 10

\* C8: each successful endTurn advances currentPlayerIndex by one modulo the
\* number of players and increments turn exactly when the index wrapped to 0;
\* after k successful endTurn calls the index is k mod P and turn is 1 + k div P.
C8_TurnRollover ==
    /\ currentPlayerIndex = endTurns % NumPlayers
    /\ turn = 1 + (endTurns \div NumPlayers)
    /\ Succeeded("endTurn") =>
          /\ currentPlayerIndex = (prev.currentPlayerIndex + 1) % NumPlayers
          /\ turn = prev.turn + (IF currentPlayerIndex = 0 THEN 1 ELSE 0)

\* C8 witness: two players have both ended a turn
C8_Witness ==
    /\ NumPlayers = 2 /\ endTurns = 2 /\ Succeeded("endTurn")
    /\ currentPlayerIndex = 0 /\ turn = 2

\* C9: a successful endTurn leaves diceResult, pendingPoints and minigameScore
\* null, and whenever a turn begins (phase TURN_START) none of the three holds
\* a value.
C9_NoLeak ==
    /\ Succeeded("endTurn") =>
          diceResult = Null /\ pendingPoints = Null /\ minigameScore = Null
    /\ state = "TURN_START" =>
          diceResult = Null /\ pendingPoints = Null /\ minigameScore = Null

\* C10: the phase is GAME_END exactly from the (MAX_TURNS * P)-th successful
\* endTurn on; every earlier endTurn re-enters TURN_START.
C10_GameEnd ==
    /\ endTurns <= 12 * NumPlayers
    /\ state = "GAME_END" <=> endTurns = 12 * NumPlayers
    /\ (Succeeded("endTurn") /\ endTurns < 12 * NumPlayers) => state = "TURN_START"

\* C10 witness: the 24th endTurn of a two-player game entered GAME_END
C10_Witness ==
    /\ NumPlayers = 2 /\ endTurns = 24
    /\ Succeeded("endTurn") /\ prev.state = "END_TURN" /\ state = "GAME_END"

\* C11: once the phase is GAME_END (reached through the public commands), every
\* further command throws or leaves the phase GAME_END (startTurn stays in
\* GAME_END), and no player's points or position, nor turn or
\* currentPlayerIndex, changes.
C11_GameEndTerminal ==
    prev.state = "GAME_END" =>
        /\ threw \/ lastCmd = "startTurn"
        /\ state = "GAME_END" /\ currentState = "GAME_END"
        /\ players = prev.players
        /\ turn = prev.turn
        /\ currentPlayerIndex = prev.currentPlayerIndex

\* C11 witness: startTurn was called after the game had ended and stayed in GAME_END
C11_Witness ==
    /\ prev.state = "GAME_END" /\ Succeeded("startTurn")
    /\ state = "GAME_END" /\ turn = MAX_TURNS + 1

\* C12: while the phase is OPTIONAL_MINIGAME no public command other than
\* completeMinigame changes the phase.
C12_OnlyCompleteMinigameLeaves ==
    (prev.state = "OPTIONAL_MINIGAME" /\ state # "OPTIONAL_MINIGAME") =>
        lastCmd = "completeMinigame"

C15_PointsAreSum ==
    \A i \in 1..NumPlayers :
        /\ players[i].points = applied[i].sum
        /\ (applied[i].count = 3 /\ applied[i].reds = 3) => players[i].points = 0 - 9

\* C15 witness: a player whose applied deltas are three red tiles (and a lost
\* minigame worth 0) has just reached -9 on the third red tile
C15_Witness ==
    /\ Succeeded("resolveTile") /\ PrevTile = "red"
    /\ applied[PrevPlayer].reds = 3 /\ applied[PrevPlayer].sum = 0 - 9
    /\ prev.players[PrevPlayer].points = 0 - 6
    /\ players[PrevPlayer].points = 0 - 9

\* whether the last call changed the phase
PhaseChanged == state # prev.state \/ currentState # prev.currentState

\* C16 (as stated): every phase change comes with exactly one invocation of
\* the callback, passing the new phase after gameState.currentState holds it;
\* a command that throws invokes it zero times; no phase change happens
\* without a notification.
C16_EveryChangeNotified ==
    /\ threw => notified = <<>>
    /\ PhaseChanged =>
          notified = <<[phase |-> state, seen |-> state]>>
    /\ \A k \in 1..Len(notified) : notified[k].seen = notified[k].phase

\* C16 (amended): every phase transition made by a command other than
\* forceStateForTesting invokes the callback exactly once with the new phase,
\* after gameState.currentState holds it; a command that throws, and
\* forceStateForTesting, invoke it zero times.
C16_CommandsNotify ==
    /\ threw => notified = <<>>
    /\ lastCmd = "forceStateForTesting" => notified = <<>>
    /\ (lastCmd \notin {"forceStateForTesting", "createGameState"} /\ ~threw) =>
          /\ notified = <<[phase |-> state, seen |-> state]>>
          /\ currentState = state
    /\ (PhaseChanged /\ lastCmd # "forceStateForTesting") => Len(notified) = 1

\* C16 witness: endTurn entered GAME_END through a single notification
C16_Witness ==
    /\ Succeeded("endTurn") /\ prev.state = "END_TURN"
    /\ notified = <<[phase |-> "GAME_END", seen |-> "GAME_END"]>>
    /\ currentState = "GAME_END"

\* C18: no TurnMachine command runs on a game state with zero players
\* (construction with an empty roster is rejected).
C18_NoCommandOnEmptyRoster ==
    lastCmd # "createGameState" => NumPlayers >= 1


\* the number of positions of seq holding x
CountOf(seq, x) == Cardinality({k \in 1..Len(seq) : seq[k] = x})

\* the number of tiles of a type
TilesOfType(type) == Cardinality({k \in 1..Len(tiles) : tiles[k].type = type})

\* C13: createGameState produces exactly 50 tiles, the tile at position i
\* carries index i, and there are exactly 20 green, 15 red, 10 yellow and 5
\* blue tiles, for every seed.  Refuted for the seeds whose draws are negative
\* (C21): the shuffle then leaves missing elements among the tile types.
C13_TileDistribution ==
    /\ Len(tiles) = 50
    /\ \A i \in 0..49 : tiles[i + 1].index = i
    /\ TilesOfType("green") = 20
    /\ TilesOfType("red") = 15
    /\ TilesOfType("yellow") = 10
    /\ TilesOfType("blue") = 5

\* the layout of seed 102270, whose shuffle moved a yellow tile
\* to index 0 and another to index 49
C13_Witness ==
    /\ seed0 = 102270
    /\ tiles[1] = [type |-> "yellow", index |-> 0]
    /\ tiles[50] = [type |-> "yellow", index |-> 49]
    /\ tiles[10].type = "blue"

\* C20: shuffle leaves the array it was given as it was, and returns a
\* permutation of it: same length, same number of occurrences of every
\* element, for every seed.  Refuted for the seeds whose draws are negative (C21).
C20_ShufflePermutes ==
    shuffleCall.called =>
        /\ shuffleCall.arrayAfter = shuffleCall.array
        /\ Len(shuffleCall.result) = Len(shuffleCall.array)
        /\ \A x \in Letters \cup {"green", "red", "yellow", "blue"} :
              CountOf(shuffleCall.result, x) = CountOf(shuffleCall.array, x)

\* a three-element array came back in another order
C20_Witness ==
    /\ shuffleCall.called
    /\ shuffleCall.array = <<"a", "b", "c">>
    /\ shuffleCall.result # shuffleCall.array
    /\ shuffleCall.arrayAfter = <<"a", "b", "c">>

\* MostPoints(w): player w has at least the points of every player
MostPoints(w) ==
    /\ w \in 1..Len(players)
    /\ \A j \in 1..Len(players) : players[w].points >= players[j].points

\* C17: in a game run by the Game orchestrator no field of the game state is
\* changed outside a TurnMachine method.  Refuted: handleMove assigns the
\* pawn position itself.
C17_SingleWriter ==
    outsideWrites \cap {"currentState", "diceResult", "pendingPoints", "minigameScore",
                        "currentPlayerIndex", "turn", "pawnPosition", "points"} = {}

\* C22: in a game run by the Game orchestrator the generator of the game state
\* is advanced by no component other than the TurnMachine.  Refuted:
\* MinigameUI.start draws the question and the option order from it.
C22_RngOwnership == "rng" \notin outsideWrites

\* C19: when the game reaches GAME_END the player handleGameEnd picks for the
\* victory animation, and the player the end screen shows when the animation
\* is over, have points greater than or equal to every player's points
C19_WinnerHasMostPoints ==
    /\ lastEvent = "gameEnd" => MostPoints(announced)
    /\ lastEvent = "victoryAnimationDone" => MostPoints(shown)

\* the end screen shows the second player, who has strictly more points
C19_Witness ==
    /\ lastEvent = "victoryAnimationDone"
    /\ state = "GAME_END"
    /\ shown = 2
    /\ announced = 2
    /\ players[2].points > players[1].points

\* C21: after every draw the stored seed is in 0..233279 (random() in [0, 1)),
\* randomInt(min, max) returns an integer in [min, max] and pick returns an
\* element of its input, for every integer seed.  Refuted for seeds <= -6.
C21_RngRange ==
    rngCall.op # "new" =>
        /\ rngCall.seed \in 0..(RNG_M - 1)
        /\ rngCall.op = "randomInt" => rngCall.int \in rngCall.min..rngCall.max
        /\ rngCall.op = "pick" =>
              \E k \in 1..Len(rngCall.array) : rngCall.elem = rngCall.array[k]

\* the tile the current player stands on
CurrentTile == tiles[players[CurrentPlayer].pawnPosition + 1]

\* C23: in a game run by the Game orchestrator no event handler calls
\* forceStateForTesting, so the phase is OPTIONAL_MINIGAME, and a minigame
\* outcome is recorded, only in a turn that landed on a blue tile.  Refuted:
\* the testBlueTile listener calls it.
C23_ForceStateUnreachable ==
    /\ testEvents = 0
    /\ (state = "OPTIONAL_MINIGAME" \/ minigameScore # Null) => CurrentTile.type = "blue"

\* movePawn was called with a callback in MOVE with a dice result, by a
\* roster that has a current player
MovedWithCallback ==
    /\ lastCmd = "movePawn"
    /\ lastArg # "none"
    /\ prev.state = "MOVE"
    /\ prev.diceResult # Null
    /\ HasCurrentPlayer(prev)

\* C24: movePawn(callback) invokes the callback exactly once with the new
\* position and leaves the game state that movePawn() without a callback
\* leaves, whatever the callback does.  Refuted by a callback that throws.
C24_CallbackIsNotification ==
    MovedWithCallback =>
        /\ moveCalls = <<players[PrevPlayer].pawnPosition>>
        /\ Snapshot = MovePawnOn(prev, "none").g

\* the trail ends with the phases suf
EndsWith(tr, suf) ==
    /\ Len(tr) >= Len(suf)
    /\ SubSeq(tr, Len(tr) - Len(suf) + 1, Len(tr)) = suf

\* the phases of a turn that rolled through rollPhases, with or without a
\* minigame, followed by the phase its endTurn entered
TurnOrder(rollPhases, minigame, next) ==
    <<"TURN_START">> \o rollPhases \o <<"MOVE", "RESOLVE_TILE">>
      \o (IF minigame THEN <<"OPTIONAL_MINIGAME">> ELSE <<>>) \o <<"END_TURN", next>>

C26_RngConsumption ==
    IF Succeeded("rollDice") \/ (Succeeded("resolveTile") /\ PrevTile = "yellow")
    THEN seed = RngNext(prev.seed)
    ELSE seed = prev.seed

\* a yellow tile was resolved and the seed moved by one step
C26_Witness ==
    /\ Succeeded("resolveTile")
    /\ PrevTile = "yellow"
    /\ seed = RngNext(prev.seed)
    /\ seed # prev.seed

\* C27: transitionToResolveTile throws outside MOVE and changes nothing then;
\* in MOVE it sets the phase to RESOLVE_TILE and changes no other field
\* (positions, diceResult, points, seed); the resolveTile that follows resolves
\* the tile at the position the current player holds when it is called
C27_TransitionOnlyChangesPhase ==
    /\ lastCmd = "transitionToResolveTile" =>
          /\ threw = (prev.state # "MOVE")
          /\ threw => Snapshot = prev
          /\ ~threw => Snapshot = [prev EXCEPT !.state = "RESOLVE_TILE",
                                               !.currentState = "RESOLVE_TILE"]
    /\ Succeeded("resolveTile") =>
          /\ (state = "OPTIONAL_MINIGAME") = (PrevTile = "blue")
          /\ PrevTile # "blue" => pendingPoints \in TileDeltas(PrevTile)

\* the phase was moved on while the first player's pawn stayed on tile 0 with
\* a dice result pending
C27_Witness ==
    /\ Succeeded("transitionToResolveTile")
    /\ state = "RESOLVE_TILE"
    /\ diceResult \in 1..6
    /\ players[PrevPlayer].pawnPosition = 0
    /\ endTurns = 0

\* a click on the roll button would reach TurnMachine.rollDice
RollAccepted == ~isMoving /\ RollDiceAllowed(state)

\* C28: while a roll / dice animation / move / resolve sequence is in flight
\* clicks are dropped, and a click reaches rollDice only when the turn has no
\* roll yet and nothing of an earlier flow is pending (no scheduled endTurn,
\* no minigame session), so the commands of two flows never interleave.
\* Refuted through the testBlueTile handler (C23).
C28_FlowsSerialised ==
    /\ flow.pc # "idle" => isMoving
    /\ RollAccepted =>
          /\ diceResult = Null
          /\ endTurnTimers = 0
          /\ ~minigameActive
          /\ minigameEnding = <<>>

\* what resolveTile leaves behind after resolving a tile of the given type
ResolvedAs(type) ==
    IF type = "blue" THEN state = "OPTIONAL_MINIGAME"
    ELSE state = "END_TURN" /\ pendingPoints \in TileDeltas(type)

\* the index the last roll of the orchestrator leads to
RollTarget == (rolled.from + rolled.dice) % 50

\* C29: in the orchestrator's animated move the tile resolved in a turn is
\* the tile at index (position the current player held at the roll +
\* diceResult) mod 50, and that player's pawnPosition equals the index when
\* resolveTile has run and when the turn, in which a tile was resolved, ends.
C29_ResolvedTileIsRollTarget ==
    /\ (lastEvent = "moveAnimationDone" /\ flow.pc = "landedWait") =>
          /\ rolled.resolved
          /\ CurrentPlayer = rolled.player
          /\ players[rolled.player].pawnPosition = RollTarget
          /\ ResolvedAs(tiles[RollTarget + 1].type)
    /\ (lastEvent \in {"endTurnTimer", "gameEnd"} /\ rolled.resolved
          /\ rolled.turn = endTurns - 1) =>
          /\ players[rolled.player].pawnPosition = RollTarget
          /\ CurrentPlayer = (rolled.player % NumPlayers) + 1

\* a turn of a player who had moved before ends after its tile was resolved
C29_Witness ==
    /\ lastEvent = "endTurnTimer"
    /\ rolled.resolved
    /\ rolled.turn = endTurns - 1
    /\ rolled.from > 0

\* C30: failed commands are atomic: whenever a TurnMachine command throws,
\* every GameState field (phase, diceResult, pendingPoints, minigameScore,
\* currentPlayerIndex, turn, all positions and points, RNG seed) is as it was
\* before the call.  Refuted: movePawn has written the position when its
\* callback throws (C24).
C30_FailedCommandsAtomic == threw => Snapshot = prev

\* the part of C30 that holds: a command refused by its guard changes nothing
C30_GuardThrowsAtomic ==
    (threw /\ ~(lastCmd = "movePawn" /\ lastArg = "throws" /\ prev.state = "MOVE")) =>
        Snapshot = prev

\* C31: in every state reachable through the public commands with P >= 1
\* players, 0 <= currentPlayerIndex < P, 1 <= turn <= MAX_TURNS + 1, no command
\* decreases turn, and the phase is GAME_END if and only if turn > MAX_TURNS.
C31_CounterInvariants ==
    /\ NumPlayers >= 1
    /\ 0 <= currentPlayerIndex /\ currentPlayerIndex < NumPlayers
    /\ 1 <= turn /\ turn <= MAX_TURNS + 1
    /\ turn >= prev.turn
    /\ (state = "GAME_END") <=> (turn > MAX_TURNS)

\* C31 witness: the last player of a roster of several ends the last turn
C31_Witness ==
    /\ Succeeded("endTurn")
    /\ NumPlayers >= 2
    /\ prev.currentPlayerIndex = NumPlayers - 1 /\ currentPlayerIndex = 0
    /\ prev.turn = MAX_TURNS /\ turn = MAX_TURNS + 1

\* a roll the orchestrator accepted belongs to the turn still in progress
RolledTurnOpen == rolled # NoRoll /\ rolled.turn = endTurns

\* a successful endTurn has just ended the turn of the last accepted roll
RolledTurnEnded ==
    /\ lastEvent \in {"endTurnTimer", "gameEnd"}
    /\ rolled # NoRoll /\ rolled.turn = endTurns - 1

MidTurnPhases == {"MOVE", "RESOLVE_TILE", "OPTIONAL_MINIGAME", "END_TURN"}

\* every accepted roll is followed by the successful endTurn of its turn, and
\* no phase of a turn lasts forever
C32_Liveness ==
    /\ RolledTurnOpen ~> ~RolledTurnOpen
    /\ (state \in MidTurnPhases) ~> (state \notin MidTurnPhases)

\* the turn of an accepted roll ends directly after its tile resolution on a
\* green, red or yellow tile and after completeMinigame on a blue tile
C32_EndsAfterResolution ==
    RolledTurnEnded =>
        EndsWith(trail, TurnOrder(<<>>, tiles[RollTarget + 1].type = "blue", state))

\* C32: when animations, timers and the minigame UI complete, every rollDice
\* accepted by Game is eventually followed by exactly one successful endTurn
\* for that turn, directly after tile resolution on green, red and yellow
\* tiles and after completeMinigame on blue tiles, and the phase never stays
\* forever in MOVE, RESOLVE_TILE, OPTIONAL_MINIGAME or END_TURN.  Refuted where
\* the testBlueTile button (C23) diverts the turn.
C32_TurnProgress == C32_Liveness /\ []C32_EndsAfterResolution

\* the part of C32 that holds as long as the testBlueTile button is not used
C32_EndsAfterResolutionUntested == testEvents = 0 => C32_EndsAfterResolution

\* C33: each start() of the MinigameUI leads to at most one onComplete call,
\* whatever the interleaving of answer clicks, the countdown interval and the
\* safety timeout, and a session is never ended by a timer that was scheduled
\* by an earlier start().  Refuted: the safety timeout of a session that was
\* answered stays scheduled and ends the next session.
C33_SessionIntegrity ==
    /\ \A k \in DOMAIN uiDone.completes : uiDone.completes[k] <= 1
    /\ uiDone.lastEnd.of = uiDone.lastEnd.session

\* the part of C33 that holds: at most one onComplete call per start()
C33_OneCompletePerStart ==
    \A k \in DOMAIN uiDone.completes : uiDone.completes[k] <= 1

\* a session started after the previous one was over, without the
\* testBlueTile button, is ended by the safety timeout of the previous one
C33_StaleSafetyTimeout ==
    /\ uiDone.testStarts = 0
    /\ uiDone.lastEnd.kind = "safety"
    /\ uiDone.lastEnd.of < uiDone.lastEnd.session

\* C34: TriviaMinigame reports each question session exactly once:
\* onComplete is invoked at most once per session, and after the timer has
\* expired (handleTimeout) a later submitAnswer does not produce a second
\* result or award points.  Refuted: submitAnswer has no guard, and the
\* overlay leaves the option buttons enabled after a timeout.
C34_ReportedOnce ==
    /\ Len(triviaDone.reported) <= 1
    /\ Len(triviaDone.closed) <= 1
    /\ \A i \in DOMAIN triviaDone.reported :
          triviaDone.reported[1].by = "timeout" => triviaDone.reported[i].pointsEarned = 0

\* after a timeout a click on the correct option awarded points
C34_PointsAfterTimeout ==
    /\ Len(triviaDone.reported) = 2
    /\ triviaDone.reported[1].by = "timeout"
    /\ triviaDone.reported[2].pointsEarned > 0


====
